---- MODULE Spec2Model ----
(***************************************************************************)
(* Model of bb.py: the set_gemini and gemini_query command handlers, the   *)
(* settings store they persist to, and the temp files they create.         *)
(* Handlers are coroutines: a step of the model runs one invocation from   *)
(* the completion of one await to the start of the next.                   *)
(***************************************************************************)
EXTENDS Integers, Sequences, FiniteSets, TLC

VARIABLES store, fs, inv

vars == <<store, fs, inv>>

-----------------------------------------------------------------------------
(* Bounds of the model *)

MaxCookieLen == 3
MaxImages == 2
MaxMeta == 2

(* Concurrently running gemini_query invocations (handler tasks) *)
Procs == {1, 2}

-----------------------------------------------------------------------------
(* Strings are sequences of characters *)

Chars == {"a", "|", " "}

RECURSIVE StringsUpTo(_)
StringsUpTo(n) ==
    IF n = 0 THEN {<<>>}
    ELSE LET S == StringsUpTo(n - 1)
         IN S \cup {Append(s, c) : s \in {t \in S : Len(t) = n - 1}, c \in Chars}

RECURSIVE LStrip(_)
LStrip(s) == IF s # <<>> /\ Head(s) = " " THEN LStrip(Tail(s)) ELSE s

RECURSIVE RStrip(_)
RStrip(s) ==
    IF s # <<>> /\ s[Len(s)] = " " THEN RStrip(SubSeq(s, 1, Len(s) - 1)) ELSE s

(* str.strip() *)
Strip(s) == RStrip(LStrip(s))

(* str.split("|"): the pieces between separators, empty pieces kept *)
RECURSIVE SplitFrom(_, _, _)
SplitFrom(s, cur, acc) ==
    IF s = <<>> THEN Append(acc, cur)
    ELSE IF Head(s) = "|" THEN SplitFrom(Tail(s), <<>>, Append(acc, cur))
    ELSE SplitFrom(Tail(s), Append(cur, Head(s)), acc)

Split(s) == SplitFrom(s, <<>>, <<>>)

Contains(s, c) == \E k \in 1..Len(s) : s[k] = c

-----------------------------------------------------------------------------
(* The settings store: db.get / db.set / db.delete on (namespace, key) *)

Namespace == "custom.gemini"
(* faulty variant: the cookie kept under another module's namespace *)
CookieKeyForeign == <<"core.main", "cookie">>

CookieKey == <<Namespace, "cookie">>
MetadataKey == <<Namespace, "chat_metadata">>
(* a setting that belongs to another module of the bot *)
ForeignKey == <<"core.main", "prefix">>
ForeignValue == <<".">>

DbHas(st, k) == k \in DOMAIN st
DbSet(st, k, v) == [x \in (DOMAIN st) \cup {k} |-> IF x = k THEN v ELSE st[x]]
DbDelete(st, k) == [x \in (DOMAIN st) \ {k} |-> st[x]]

(* db.get(..., "chat_metadata", None), None and falsy values read as 0 *)
StoredMetadata(st) == IF DbHas(st, MetadataKey) THEN st[MetadataKey] ELSE 0

-----------------------------------------------------------------------------
(* Temp files *)

TEMP_FILE_DIR == "temp_gemini_files"
TEMP_IMAGE_DIR == "temp_gemini_images"

(* f"gemini_gen_{index}.png" under TEMP_IMAGE_DIR *)
GenPath(index) == <<TEMP_IMAGE_DIR, "gemini_gen", index, ".png">>

(* f"{file_unique_id}{ext}" under TEMP_FILE_DIR *)
FilePath(uid, ext) == <<TEMP_FILE_DIR, uid[1], uid[2], ext>>

(* fs maps an existing path to the invocation that last wrote it *)
Exists(files, p) == p \in DOMAIN files
WriteFile(files, p, who) ==
    [x \in (DOMAIN files) \cup {p} |-> IF x = p THEN who ELSE files[x]]

(* _safe_remove *)
SafeRemove(files, p) == [x \in (DOMAIN files) \ {p} |-> files[x]]

RECURSIVE RemoveAll(_, _)
RemoveAll(files, ps) ==
    IF ps = <<>> THEN files ELSE RemoveAll(SafeRemove(files, Head(ps)), Tail(ps))

-----------------------------------------------------------------------------
(* The replied-to message: which attachments it has, the suffix of the     *)
(* attachments' file_name ("": no file_name, or a name without a suffix),   *)
(* and the message the attachments' file_unique_ids derive from            *)

LoopAttrs == <<"document", "audio", "video", "voice", "video_note">>
AllAttrs == {"document", "audio", "video", "voice", "video_note", "photo"}
NamedAttrs == {"document", "audio", "video"}

NoReply == [id |-> 0, attrs |-> {}, suffix |-> ""]

ext_map(attr) ==
    CASE attr = "voice" -> ".ogg"
      [] attr = "video_note" -> ".mp4"
      [] attr = "video" -> ".mp4"
      [] attr = "audio" -> ".mp3"
      [] attr = "document" -> "None"

(* lines 77-89: the extension of the destination *)
ExtOf(replied, attr) ==
    LET suffix == IF attr \in NamedAttrs THEN replied.suffix ELSE ""
    IN IF suffix = "" THEN ext_map(attr) ELSE suffix

UidOf(replied, attr) == <<replied.id, attr>>

(* lines 74-76: the first attribute of the loop that holds a media object *)
RECURSIVE FirstMedia(_, _)
FirstMedia(replied, k) ==
    IF k > Len(LoopAttrs) THEN "none"
    ELSE IF LoopAttrs[k] \in replied.attrs THEN LoopAttrs[k]
    ELSE FirstMedia(replied, k + 1)

(* faulty variant: the photo is downloaded even after another attachment *)
PhotoDueAlways(replied, files) == "photo" \in replied.attrs

(* line 95 *)
PhotoDue(replied, files) == "photo" \in replied.attrs /\ files = <<>>

-----------------------------------------------------------------------------
(* get_client: the checks on the stored cookie (lines 34-45) *)

(* faulty variant: the check that both parts are non-empty is missing *)
CookieCheckNoEmpty(st) ==
    IF ~DbHas(st, CookieKey) \/ st[CookieKey] = <<>> THEN "NoCookie"
    ELSE IF Len(Split(Strip(st[CookieKey]))) # 2 THEN "BadFormat"
    ELSE "ok"

CookieCheck(st) ==
    IF ~DbHas(st, CookieKey) \/ st[CookieKey] = <<>> THEN "NoCookie"
    ELSE LET parts == Split(Strip(st[CookieKey]))
         IN IF Len(parts) # 2 THEN "BadFormat"
            ELSE IF parts[1] = <<>> \/ parts[2] = <<>> THEN "EmptyPart"
            ELSE "ok"

(* line 62: f"{psid}|{new_psidts}" *)
JoinCookie(psid, psidts) == psid \o <<"|">> \o psidts

(* lines 59-64: the refreshed __Secure-1PSIDTS is written back, unless     *)
(* client.cookies.get raises, which is swallowed                           *)
RefreshCookie(st, psid, psidts, new_psidts, getRaises) ==
    IF ~getRaises /\ new_psidts # <<>> /\ new_psidts # psidts
    THEN DbSet(st, CookieKey, JoinCookie(psid, new_psidts))
    ELSE st

(* faulty variant: every chat is started fresh *)
ChatBaseFresh(metadata, resumeOk) == 0

(* lines 152-159: the metadata the chat is started from; 0 is a fresh chat *)
ChatBase(metadata, resumeOk) == IF metadata # 0 /\ resumeOk THEN metadata ELSE 0

(* lines 155-157: a failed resume forgets the stored conversation *)
AfterStartChat(st, metadata, resumeOk) ==
    IF metadata # 0 /\ ~resumeOk THEN DbDelete(st, MetadataKey) ELSE st

(* lines 164-165 *)
SaveMetadata(st, md) == IF md # 0 THEN DbSet(st, MetadataKey, md) ELSE st

-----------------------------------------------------------------------------
(* Exceptions: the three ValueErrors of get_client, and what an awaited    *)
(* library call may raise                                                  *)

LibErrors == {"LibValueError", "OtherError"}
ValueErrors == {"NoCookie", "BadFormat", "EmptyPart", "LibValueError"}

(* faulty variant: one generic text for every error *)
HandlerTextGeneric(e) == <<"fail", "generic">>

(* lines 189-192: the text the acknowledgement is edited to *)
HandlerText(e) == IF e \in ValueErrors THEN <<"fail", e>> ELSE <<"fail", "generic">>

-----------------------------------------------------------------------------
(* One gemini_query invocation: its position, locals, and what it did *)

IdleFrame ==
    [pc |-> "idle", cmd |-> "none", replied |-> NoReply,
     dlStage |-> "loop", dest |-> <<>>,
     downloaded_files |-> <<>>, generated_image_paths |-> <<>>,
     psid |-> <<>>, psidts |-> <<>>, chatBase |-> 0, chatMd |-> 0,
     text |-> "", images |-> <<>>, i |-> 0, photo |-> "none",
     exc |-> "none", ack |-> <<"info", "none">>, edits |-> <<>>,
     photos |-> <<>>, savedIdx |-> {}, notices |-> 0, steps |-> <<>>,
     escaped |-> FALSE, handlerRaised |-> FALSE, sendOk |-> FALSE,
     resumeRaised |-> FALSE, created |-> {},
     downloads |-> 0, clients |-> 0, requests |-> 0]

Commit(p, f, st, files) ==
    /\ inv' = [inv EXCEPT ![p] = f]
    /\ store' = st
    /\ fs' = files

Log(f, s) == [f EXCEPT !.steps = Append(@, s)]

(* lines 193-197 *)
Finally(p, f, st, files) ==
    Commit(p, [Log(f, "cleanup") EXCEPT !.pc = "done"], st,
           RemoveAll(RemoveAll(files, f.downloaded_files), f.generated_image_paths))

(* an exception reaches the handlers of lines 189-192, whose edit is awaited *)
Raise(p, f, e, st, files) ==
    Commit(p, [f EXCEPT !.pc = "handler", !.exc = e], st, files)

(* lines 173-185: the first image at or after index k whose handling awaits *)
RECURSIVE NextStop(_, _)
NextStop(images, k) ==
    IF k >= Len(images) THEN k
    ELSE IF images[k + 1].kind = "generated" \/ images[k + 1].url THEN k
    ELSE NextStop(images, k + 1)

SendPhoto(p, f, kind, st, files) ==
    Commit(p, [f EXCEPT !.pc = "send_photo", !.photo = kind,
                        !.photos = Append(@, <<f.i, kind>>)], st, files)

(* lines 172-185, entered at index k *)
ImageLoop(p, f, k, st, files) ==
    LET n == NextStop(f.images, k)
        g == [f EXCEPT !.i = n, !.photo = "none"]
    IN IF n >= Len(f.images) THEN Finally(p, g, st, files)
       ELSE IF f.images[n + 1].kind = "generated"
            THEN Commit(p, [g EXCEPT !.pc = "save"], st, files)
       ELSE SendPhoto(p, g, "url", st, files)

(* lines 147, 33-57 *)
GetClient(p, f, st, files) ==
    LET f1 == Log(f, "read_cookie")
        chk == CookieCheck(st)
        parts == Split(Strip(st[CookieKey]))
    IN IF chk # "ok" THEN Raise(p, f1, chk, st, files)
       ELSE Commit(p, [Log(f1, "construct_client") EXCEPT
                          !.pc = "init", !.psid = parts[1], !.psidts = parts[2],
                          !.clients = @ + 1], st, files)

(* line 147 follows line 145 *)
AfterDownload(p, f, st, files) == GetClient(p, f, st, files)

StartDownload(p, f, attr, ext, stage, st, files) ==
    Commit(p, [Log(f, "download") EXCEPT
                  !.pc = "download", !.dlStage = stage,
                  !.dest = FilePath(UidOf(f.replied, attr), ext),
                  !.downloads = @ + 1], st, files)

(* lines 95-100 *)
PhotoCheck(p, f, st, files) ==
    IF PhotoDue(f.replied, f.downloaded_files)
    THEN StartDownload(p, f, "photo", ".jpg", "photo", st, files)
    ELSE AfterDownload(p, f, st, files)

(* faulty variant: the replied-to media is never downloaded *)
EnterDownloadSkip(p, f, st, files) == AfterDownload(p, f, st, files)

(* lines 69-93 *)
EnterDownload(p, f, st, files) ==
    IF f.replied = NoReply THEN AfterDownload(p, f, st, files)
    ELSE LET attr == FirstMedia(f.replied, 1)
         IN IF attr # "none"
            THEN StartDownload(p, f, attr, ExtOf(f.replied, attr), "loop", st, files)
            ELSE PhotoCheck(p, f, st, files)

-----------------------------------------------------------------------------
(* Inputs *)

ImageKinds == [kind : {"generated", "web"}, url : BOOLEAN]

RECURSIVE ImageLists(_)
ImageLists(n) ==
    IF n = 0 THEN {<<>>}
    ELSE LET S == ImageLists(n - 1)
         IN S \cup {Append(s, im) : s \in {t \in S : Len(t) = n - 1}, im \in ImageKinds}

(* what chat.send_message returns: the answer text ("" when there is none), *)
(* the images, and chat.metadata afterwards (0 when empty)                  *)
WideResponses == [text : {"", "t"}, images : ImageLists(MaxImages), md : 0..MaxMeta]

Suffixes == {"", ".pdf"}

WideMessages ==
    [cmd : {"none", "blank"}, replied : {NoReply}]
    \cup [cmd : {"ok"},
          replied : {NoReply} \cup
                    {m \in [id : {1}, attrs : SUBSET AllAttrs, suffix : Suffixes] :
                        m.suffix # "" => m.attrs \cap NamedAttrs # {}}]

NarrowMessages ==
    [cmd : {"ok"},
     replied : {NoReply, [id |-> 1, attrs |-> {"voice", "photo"}, suffix |-> ""]}]

(* the text after the command word, as message.text.split(maxsplit=1)[1]   *)
(* yields it: it starts with a non-blank character                         *)
WideArgs == {s \in StringsUpTo(MaxCookieLen) : s # <<>> /\ Head(s) # " "}
NarrowArgs == {<<"a">>, <<"|", "a">>, <<"a", "|", "a">>}

WideCookies == StringsUpTo(MaxCookieLen)
NarrowCookies == {<<>>, <<"a", "|", "a">>}

(* one of each: a good cookie, a cookie argument, a reply with two          *)
(* attachments, a response with one generated image                        *)
OneCookie == {<<"a", "|", "a">>}
OneArg == {<<"a", "|", "a">>}
OneMessage ==
    [cmd : {"ok"},
     replied : {[id |-> 1, attrs |-> {"voice", "photo"}, suffix |-> ""]}]
OneResponse ==
    [text : {"t"}, images : {<<[kind |-> "generated", url |-> FALSE]>>}, md : {1}]

(* what client.cookies holds for __Secure-1PSIDTS after init *)
NewPsidts == {<<>>, <<"a">>, <<"b">>}

-----------------------------------------------------------------------------
(* set_gemini (lines 114-125) *)

(* lines 120-121 *)
ValidArg(arg) ==
    LET cookies == Strip(arg)
    IN Contains(cookies, "|") /\ Len(Split(cookies)) = 2

(* "absent" is the command given without an argument: the handler answers  *)
(* with the usage text, as it answers an invalid argument, and stores      *)
(* nothing                                                                 *)
SetGemini(Args) ==
    /\ \E arg \in Args \cup {<<"absent">>} :
          IF arg # <<"absent">> /\ ValidArg(arg)
          THEN store' = DbSet(store, CookieKey, Strip(arg))
          ELSE UNCHANGED store
    /\ UNCHANGED <<fs, inv>>

-----------------------------------------------------------------------------
(* gemini_query (lines 128-197) *)

(* lines 129-139 *)
Start(p, Messages) ==
    /\ inv[p].pc \in {"idle", "done"}
    /\ \E m \in Messages :
          LET f == [IdleFrame EXCEPT !.cmd = m.cmd, !.replied = m.replied]
          IN CASE m.cmd = "none" ->
                    Commit(p, [f EXCEPT !.pc = "done", !.ack = <<"info", "usage">>],
                           store, fs)
               [] m.cmd = "blank" ->
                    Commit(p, [f EXCEPT !.pc = "done", !.ack = <<"info", "empty">>],
                           store, fs)
               [] m.cmd = "ok" -> Commit(p, [f EXCEPT !.pc = "ack"], store, fs)

(* line 139 returns or raises; lines 141-147 *)
AckDone(p) ==
    /\ inv[p].pc = "ack"
    /\ \/ Commit(p, [inv[p] EXCEPT !.pc = "done", !.escaped = TRUE], store, fs)
       \/ EnterDownload(p, [inv[p] EXCEPT !.ack = <<"info", "thinking">>,
                                          !.edits = Append(@, <<"info", "thinking">>)],
                        store, fs)

(* lines 91-93 and 97-98: replied.download returns or raises *)
DownloadDone(p) ==
    /\ inv[p].pc = "download"
    /\ \/ \E e \in LibErrors : Raise(p, inv[p], e, store, fs)
       \/ LET f == [inv[p] EXCEPT !.downloaded_files = Append(@, inv[p].dest),
                                   !.created = @ \cup {inv[p].dest}]
              files == WriteFile(fs, inv[p].dest, p)
          IN IF f.dlStage = "loop" THEN PhotoCheck(p, f, store, files)
             ELSE AfterDownload(p, f, store, files)

(* lines 52-66 and 149-162: client.init returns or raises *)
InitDone(p) ==
    /\ inv[p].pc = "init"
    /\ \/ \E e \in LibErrors : Raise(p, inv[p], e, store, fs)
       \/ \E new_psidts \in NewPsidts, getRaises, resumeOk \in BOOLEAN :
             LET f == inv[p]
                 st1 == RefreshCookie(store, f.psid, f.psidts, new_psidts, getRaises)
                 metadata == StoredMetadata(st1)
                 st2 == AfterStartChat(st1, metadata, resumeOk)
             IN Commit(p, [Log(Log(f, "read_metadata"), "send") EXCEPT
                              !.pc = "send",
                              !.chatBase = ChatBase(metadata, resumeOk),
                              !.resumeRaised = (metadata # 0 /\ ~resumeOk),
                              !.requests = @ + 1], st2, fs)

(* lines 162-170: chat.send_message returns or raises *)
SendDone(p, Responses) ==
    /\ inv[p].pc = "send"
    /\ \/ \E e \in LibErrors : Raise(p, inv[p], e, store, fs)
       \/ \E r \in Responses :
             Commit(p, [Log(inv[p], "relay") EXCEPT
                           !.pc = "relay_text", !.sendOk = TRUE, !.text = r.text,
                           !.images = r.images, !.chatMd = r.md],
                    SaveMetadata(store, r.md), fs)

(* line 170 returns or raises; lines 172-185 *)
RelayTextDone(p) ==
    /\ inv[p].pc = "relay_text"
    /\ \/ \E e \in LibErrors : Raise(p, inv[p], e, store, fs)
       \/ ImageLoop(p, [inv[p] EXCEPT !.ack = <<"answer", inv[p].text>>,
                                      !.edits = Append(@, <<"answer", inv[p].text>>)],
                    0, store, fs)

(* lines 176-182 and 102-111: image.save returns or raises *)
SaveDone(p) ==
    /\ inv[p].pc = "save"
    /\ LET f == inv[p]
       IN \/ SendPhoto(p, [f EXCEPT !.savedIdx = @ \cup {f.i},
                                     !.created = @ \cup {GenPath(f.i)}], "local", store,
                       WriteFile(fs, GenPath(f.i), p))
          \/ IF f.images[f.i + 1].url THEN SendPhoto(p, f, "url", store, fs)
             ELSE ImageLoop(p, f, f.i + 1, store, fs)

(* lines 178-187: app.send_photo returns or raises *)
SendPhotoDone(p) ==
    /\ inv[p].pc = "send_photo"
    /\ LET f == inv[p]
       IN \/ Commit(p, [f EXCEPT !.pc = "notice"], store, fs)
          \/ ImageLoop(p, IF f.photo = "local"
                          THEN [f EXCEPT !.generated_image_paths =
                                            Append(@, GenPath(f.i))]
                          ELSE f,
                       f.i + 1, store, fs)

(* line 187: app.send_message returns or raises *)
NoticeDone(p) ==
    /\ inv[p].pc = "notice"
    /\ \/ \E e \in LibErrors : Raise(p, inv[p], e, store, fs)
       \/ ImageLoop(p, [inv[p] EXCEPT !.notices = @ + 1], inv[p].i + 1, store, fs)

(* lines 189-197: the handler's wait_msg.edit returns or raises *)
HandlerDone(p) ==
    /\ inv[p].pc = "handler"
    /\ LET f == inv[p]
       IN \/ Finally(p, [f EXCEPT !.ack = HandlerText(f.exc),
                                  !.edits = Append(@, HandlerText(f.exc))], store, fs)
          \/ Finally(p, [f EXCEPT !.escaped = TRUE, !.handlerRaised = TRUE], store, fs)

-----------------------------------------------------------------------------
(* Specifications *)

InitWith(Cookies, Stored) ==
    /\ \E c \in Cookies \cup {<<"unset">>}, m \in Stored :
          store = LET s0 == [k \in {ForeignKey} |-> ForeignValue]
                      s1 == IF c = <<"unset">> THEN s0 ELSE DbSet(s0, CookieKey, c)
                  IN IF m = 0 THEN s1 ELSE DbSet(s1, MetadataKey, m)
    /\ fs = <<>>
    /\ inv = [p \in Procs |-> IdleFrame]

NextWith(P, Args, Messages, Responses) ==
    \/ SetGemini(Args)
    \/ \E p \in P :
          \/ Start(p, Messages)
          \/ AckDone(p)
          \/ DownloadDone(p)
          \/ InitDone(p)
          \/ SendDone(p, Responses)
          \/ RelayTextDone(p)
          \/ SaveDone(p)
          \/ SendPhotoDone(p)
          \/ NoticeDone(p)
          \/ HandlerDone(p)

(* Two handler tasks interleaving at their awaits *)
Init == InitWith(OneCookie, {0, 1})
Next == NextWith(Procs, OneArg, OneMessage, OneResponse)
Spec == Init /\ [][Next]_vars

(* One invocation at a time, over every replied-to message *)
InitMedia == InitWith(OneCookie, {0})
NextMedia == NextWith({1}, OneArg, WideMessages, OneResponse)
SpecMedia == InitMedia /\ [][NextMedia]_vars

(* One invocation at a time, over every stored cookie and command argument *)
InitCookie == InitWith(WideCookies, {0, 1})
NextCookie == NextWith({1}, WideArgs, OneMessage, OneResponse)
SpecCookie == InitCookie /\ [][NextCookie]_vars

(* One invocation at a time, over every stored and returned metadata *)
ChatResponses ==
    [text : {"t"}, images : {<<[kind |-> "generated", url |-> FALSE]>>},
     md : 0..MaxMeta]
InitChat == InitWith(OneCookie, 0..MaxMeta)
NextChat == NextWith({1}, OneArg, NarrowMessages, ChatResponses)
SpecChat == InitChat /\ [][NextChat]_vars

(* One invocation at a time, over every response *)
InitRelay == InitWith(NarrowCookies, {0, 1})
NextRelay == NextWith({1}, NarrowArgs, NarrowMessages, WideResponses)
SpecRelay == InitRelay /\ [][NextRelay]_vars

-----------------------------------------------------------------------------
(* Properties *)

PastAck(f) == Len(f.edits) > 0

(* C1: when an invocation that got past the acknowledgement terminates, no *)
(* temp file it created (downloaded media or saved image) still exists.    *)
TempFilesCleaned ==
    \A p \in Procs :
        (inv[p].pc = "done" /\ PastAck(inv[p]))
            => \A path \in inv[p].created : ~Exists(fs, path)

(* C2: _download_replied_media performs at most one download and returns   *)
(* at most one file, and neither downloads nor returns anything when there *)
(* is no replied-to message.                                               *)
AtMostOneDownload ==
    \A p \in Procs :
        /\ inv[p].downloads <= 1
        /\ Len(inv[p].downloaded_files) <= 1
        /\ inv[p].replied = NoReply
              => inv[p].downloads = 0 /\ inv[p].downloaded_files = <<>>

(* a reply with a document, a video and a photo, after its one download *)
AtMostOneDownloadWitness ==
    \E p \in Procs :
        /\ {"document", "video", "photo"} \subseteq inv[p].replied.attrs
        /\ inv[p].pc = "init"
        /\ inv[p].downloads = 1
        /\ Len(inv[p].downloaded_files) = 1

Before(steps, a, b) ==
    \A k \in 1..Len(steps) : steps[k] = b => \E j \in 1..(k - 1) : steps[j] = a

(* C3, as stated: the steps run in the listed order, settings read, client *)
(* constructed, media downloaded, request sent, response relayed, temp     *)
(* files removed; no download precedes the read of the stored cookie.      *)
StepsInListedOrder ==
    \A p \in Procs :
        LET steps == inv[p].steps
        IN /\ Before(steps, "read_cookie", "construct_client")
           /\ Before(steps, "read_cookie", "download")
           /\ Before(steps, "construct_client", "download")
           /\ Before(steps, "download", "send") \/ inv[p].downloads = 0
           /\ Before(steps, "send", "relay")
           /\ Before(steps, "relay", "cleanup") \/ ~inv[p].sendOk

HasMedia(replied) == replied # NoReply /\ replied.attrs # {}

CodeOrder(f) ==
    (IF HasMedia(f.replied) THEN <<"download">> ELSE <<>>)
    \o <<"read_cookie", "construct_client", "read_metadata", "send", "relay">>

IsPrefix(s, t) == Len(s) <= Len(t) /\ s = SubSeq(t, 1, Len(s))

(* C3, amended: the steps run in the order media download (when the reply  *)
(* has media), cookie read, client construction, chat_metadata read,       *)
(* request, relay, and temp-file removal last; each step starts only after *)
(* all the steps before it, and the removal ends every invocation that got *)
(* past the acknowledgement.                                               *)
StepsInCodeOrder ==
    \A p \in Procs :
        LET f == inv[p]
            n == Len(f.steps)
            cleaned == n > 0 /\ f.steps[n] = "cleanup"
            body == IF cleaned THEN SubSeq(f.steps, 1, n - 1) ELSE f.steps
        IN /\ IsPrefix(body, CodeOrder(f))
           /\ cleaned <=> (f.pc = "done" /\ PastAck(f))
           /\ f.pc = "init" => body = SubSeq(CodeOrder(f), 1, Len(CodeOrder(f)) - 3)
           /\ f.pc = "send" => body = SubSeq(CodeOrder(f), 1, Len(CodeOrder(f)) - 1)
           /\ f.sendOk => body = CodeOrder(f)

(* an invocation that downloaded media and ran through to the removal *)
StepsInCodeOrderWitness ==
    \E p \in Procs :
        inv[p].steps = <<"download", "read_cookie", "construct_client",
                         "read_metadata", "send", "relay", "cleanup">>

Changed(k) ==
    ~(k \in DOMAIN store /\ k \in DOMAIN store' /\ store'[k] = store[k])

(* C5: every set or delete on the settings store targets 'cookie' or       *)
(* 'chat_metadata' under 'custom.gemini'; every other key is unchanged.    *)
OnlyGeminiKeysWritten ==
    [][\A k \in (DOMAIN store) \cup (DOMAIN store') :
          Changed(k) => k \in {<<"custom.gemini", "cookie">>,
                               <<"custom.gemini", "chat_metadata">>}]_vars

(* the cookie has been refreshed, the metadata saved, the rest is as it was *)
OnlyGeminiKeysWrittenWitness ==
    /\ <<"custom.gemini", "cookie">> \in DOMAIN store
    /\ store[<<"custom.gemini", "cookie">>] = <<"a", "|", "b">>
    /\ <<"custom.gemini", "chat_metadata">> \in DOMAIN store
    /\ store[ForeignKey] = ForeignValue
    /\ \E p \in Procs : inv[p].sendOk /\ inv[p].pc = "done"

MetadataSaved ==
    \A p \in Procs :
        (inv[p].sendOk /\ inv[p].chatMd # 0) => StoredMetadata(store) = inv[p].chatMd

StartsFromStored ==
    \A p \in Procs :
        (inv[p].pc = "init" /\ inv'[p].pc = "send")
            => inv'[p].chatBase =
                  IF StoredMetadata(store) # 0 /\ ~inv'[p].resumeRaised
                  THEN StoredMetadata(store) ELSE 0

ToSend(f) ==
    {k \in 0..(Len(f.images) - 1) :
        LET image == f.images[k + 1]
        IN \/ image.kind = "web" /\ image.url
           \/ image.kind = "generated" /\ (image.url \/ k \in f.savedIdx)}

Ascending(s) == \A j, k \in 1..Len(s) : j < k => s[j][1] < s[k][1]

Answered(f) == \E k \in 1..Len(f.edits) : f.edits[k][1] = "answer"

(* C7: the acknowledgement is edited once to the answer, before any photo, *)
(* and then every image to be sent gets exactly one send_photo, in         *)
(* response order, whatever fails for an earlier image. Stated for the     *)
(* invocations whose edit to the answer went through.                      *)
TextThenEveryImage ==
    \A p \in Procs :
        LET f == inv[p]
        IN /\ f.photos # <<>> => Answered(f)
           /\ (f.pc = "done" /\ f.sendOk /\ Answered(f))
                 => /\ Cardinality({k \in 1..Len(f.edits) : f.edits[k][1] = "answer"}) = 1
                    /\ {f.photos[k][1] : k \in 1..Len(f.photos)} = ToSend(f)
                    /\ Ascending(f.photos)

Rejections == {"NoCookie", "BadFormat", "EmptyPart"}

(* the stored cookie is bad in the sense of the claim *)
BadCookie(st) ==
    LET k == <<"custom.gemini", "cookie">>
    IN \/ k \notin DOMAIN st
       \/ st[k] = <<>>
       \/ Len(Split(st[k])) # 2
       \/ \E n \in 1..Len(Split(st[k])) : Split(st[k])[n] = <<>>

ReadsCookie(p) ==
    /\ "read_cookie" \notin {inv[p].steps[k] : k \in 1..Len(inv[p].steps)}
    /\ "read_cookie" \in {inv'[p].steps[k] : k \in 1..Len(inv'[p].steps)}

RejectsBadCookie ==
    \A p \in Procs :
        (ReadsCookie(p) /\ BadCookie(store))
            => /\ inv'[p].pc = "handler"
               /\ inv'[p].exc \in Rejections
               /\ inv'[p].clients = 0
               /\ store' = store

RejectedDoesNothing ==
    \A p \in Procs :
        inv[p].exc \in Rejections
            => inv[p].clients = 0 /\ inv[p].requests = 0 /\ ~inv[p].sendOk

RejectedWritesNothing ==
    \A p \in Procs :
        (inv[p].exc \in Rejections /\ inv'[p] # inv[p] /\ inv'[p].exc = inv[p].exc)
            => store' = store

(* C8: on a missing, empty, not two-part or empty-part cookie get_client   *)
(* raises ValueError, constructs no client and writes nothing; the         *)
(* invocation then sends no request and leaves the store as it is.         *)
BadCookieRejected ==
    [][RejectsBadCookie /\ RejectedWritesNothing]_vars /\ []RejectedDoesNothing

(* an invocation ended on a cookie with an empty part, the store untouched *)
BadCookieRejectedWitness ==
    \E p \in Procs :
        /\ inv[p].pc = "done"
        /\ inv[p].exc = "EmptyPart"
        /\ inv[p].requests = 0
        /\ store[<<"custom.gemini", "cookie">>] = <<"|", "a">>

(* the temp files an invocation has created and not finished using *)
InUse(q) ==
    (IF inv[q].pc \in {"init", "send"}
     THEN {inv[q].downloaded_files[k] : k \in 1..Len(inv[q].downloaded_files)}
     ELSE {})
    \cup (IF inv[q].pc = "send_photo" /\ inv[q].photo = "local"
          THEN {GenPath(inv[q].i)} ELSE {})

(* C9: no invocation removes or overwrites a temp file that another        *)
(* invocation has created and has not finished using.                      *)
TempFilesPrivate ==
    [][\A q \in Procs :
          inv'[q] = inv[q]
              => \A path \in InUse(q) :
                    Exists(fs, path) => Exists(fs', path) /\ fs'[path] = fs[path]]_vars

(* C10: once the acknowledgement shows the answer, the invocation never    *)
(* edits it to a failure message.                                          *)
AnswerNeverReplaced ==
    \A p \in Procs :
        \A j, k \in 1..Len(inv[p].edits) :
            (j < k /\ inv[p].edits[j][1] = "answer") => inv[p].edits[k][1] # "fail"

====
